---- MODULE Spec2Model ----
(***************************************************************************)
(* PutBackPeekMore<Iter, BUFSIZE> (src/src/lib.rs): an iterator adapter    *)
(* with a fixed staging array `peek`, a cursor `fizz` and a wrapped        *)
(* iterator `iter`.                                                        *)
(*                                                                         *)
(* Rust indices are kept: `peek` is a function over 0..BUFSIZE-1.          *)
(* Option<Item> is an integer: None is -1, Some(x) is x for an item x >= 0.*)
(* A panic (index out of bounds, slice range error, arithmetic overflow    *)
(* with overflow checks on) ends the run: `panicked` becomes TRUE with the *)
(* fields as they were when the panic was raised.                          *)
(* `usize` arithmetic keeps its width: with overflow checks on (debug      *)
(* profile) an overflow panics, with them off (release profile) it wraps   *)
(* modulo 2^UsizeBits.  The profile is chosen at Init.                     *)
(***************************************************************************)
EXTENDS Integers, Sequences, FiniteSets, TLC

\* ---------------------------------------------------------------- bounds
MaxBufSize == 3      \* capacities 0..MaxBufSize
MaxLen == 4          \* source lengths 0..MaxLen
MaxAmount == 3       \* peek_value amounts 0..MaxAmount
MaxPutBack == 1      \* put_back values None, Some(0)..Some(MaxPutBack-1)
MaxNexts == 5        \* next() is called while it returned fewer times

\* ------------------------------------------------------------- constants
\* Option::None; Some(x) is the item x >= 0
None == -1
\* usize::BITS on the target the crate is built for
UsizeBits == 64
\* A usize value v is held as the integer nearest to 0 that is congruent to
\* v modulo 2^UsizeBits: v itself when v is in the lower half of the range,
\* v - 2^UsizeBits when it is in the upper half.  usize::MAX is -1.
UsizeMax == -1

VARIABLES
    BUFSIZE,          \* const generic BUFSIZE
    overflow_checks,  \* TRUE: arithmetic overflow panics; FALSE: it wraps
    iter,             \* items the wrapped iterator has not yielded yet
    peek,             \* the staging array, [0..BUFSIZE-1 -> Option]
    fizz,             \* the cursor
    panicked,         \* a panic was raised
    source,           \* history: the sequence the iterator was built over
    nexts,            \* history: how many times next() has returned
    last,             \* history: the last call [op, arg, fizz0, out]
    prev,             \* history: the name of the call before the last
    script            \* history: how many calls of Scenario the run has
                      \* made, in order, as its only calls; -1 once it left it

vars == <<BUFSIZE, overflow_checks, iter, peek, fizz, panicked,
          source, nexts, last, prev, script>>

\* ------------------------------------------------------ the wrapped iterator
\* Iter::next() called for the (k+1)-th time on `it`: the item, or None for
\* ever once the items are used up.
iter_nth(it, k) == IF k + 1 <= Len(it) THEN it[k + 1] ELSE None

\* what is left of `it` after n calls of Iter::next()
iter_after(it, n) == IF n >= Len(it) THEN <<>> ELSE SubSeq(it, n + 1, Len(it))

\* ---------------------------------------------------------- usize arithmetic
\* the value is in the upper half of the range of usize
upper(a) == a < 0

\* a < b and a <= b on usize
usize_lt(a, b) == IF upper(a) = upper(b) THEN a < b ELSE upper(b)
usize_le(a, b) == a = b \/ usize_lt(a, b)

\* a + b and a - b leave the range of usize
add_overflows(a, b) ==
    IF upper(a) /\ upper(b) THEN TRUE
    ELSE IF upper(a) \/ upper(b) THEN a + b >= 0
    ELSE FALSE
sub_overflows(a, b) == usize_lt(a, b)

\* a + b and a - b modulo 2^UsizeBits
wrapping_add(a, b) == a + b
wrapping_sub(a, b) == a - b

\* the low k binary digits of n >= 0, lowest first
RECURSIVE digits(_, _)
digits(n, k) == IF k = 0 THEN <<>> ELSE <<n % 2>> \o digits(n \div 2, k - 1)

\* the UsizeBits binary digits of the usize value held as a, lowest first
usize_digits(a) ==
    IF upper(a) THEN [i \in 1 .. UsizeBits |-> 1 - digits(-a - 1, UsizeBits)[i]]
    ELSE digits(a, UsizeBits)

\* ------------------------------------------------------------- the struct
\* `draws` is a ghost field: how many times the running call has called
\* Iter::next() on the wrapped iterator
Self(it, pk, fz, pn) ==
    [iter |-> it, peek |-> pk, fizz |-> fz, panicked |-> pn, draws |-> 0]

panic(self) == [self EXCEPT !.panicked = TRUE]

\* new leaving the staging array empty instead of filling it
new_lazy(it, bufsize) ==
    Self(it, [i \in 0 .. bufsize - 1 |-> None], 0, FALSE)

\* pub fn new(mut iter: Iter) -> Self
new(it, bufsize) ==
    [Self(iter_after(it, bufsize),
          [i \in 0 .. bufsize - 1 |-> iter_nth(it, i)],
          0, FALSE)
     EXCEPT !.draws = bufsize]

len(self) == Cardinality(DOMAIN self.peek)

\* pub(crate) fn write_over_start(&mut self)
write_over_start(self) ==
    [self EXCEPT !.peek = [i \in DOMAIN self.peek |-> iter_nth(self.iter, i)],
                 !.iter = iter_after(self.iter, len(self)),
                 !.draws = @ + len(self),
                 !.fizz = 0]

\* demand that never refills
demand_never_refills(self, val) ==
    IF add_overflows(self.fizz, val) /\ overflow_checks THEN panic(self)
    ELSE self

\* demand refilling one slot early: `>=` for `>`
demand_early(self, val) ==
    LET sum == wrapping_add(self.fizz, val) IN
    IF add_overflows(self.fizz, val) /\ overflow_checks THEN panic(self)
    ELSE IF usize_le(len(self), sum) THEN write_over_start(self)
    ELSE self

\* pub(crate) fn demand(&mut self, val: usize)
demand(self, val) ==
    LET sum == wrapping_add(self.fizz, val) IN
    IF add_overflows(self.fizz, val) /\ overflow_checks THEN panic(self)
    ELSE IF usize_lt(len(self), sum) THEN write_over_start(self)
    ELSE self

\* write_over_val redrawing every slot instead of the slots from val on
write_over_val_full(self, val) ==
    IF usize_lt(len(self), val) THEN panic(self)
    ELSE [self EXCEPT
            !.peek = [i \in DOMAIN self.peek |-> iter_nth(self.iter, i)],
            !.iter = iter_after(self.iter, len(self)),
            !.draws = @ + len(self),
            !.fizz = val]

\* pub(crate) fn write_over_val(&mut self, val: usize)
\* self.peek[val..] panics when val > len
write_over_val(self, val) ==
    IF usize_lt(len(self), val) THEN panic(self)
    ELSE [self EXCEPT
            !.peek = [i \in DOMAIN self.peek |->
                        IF i >= val THEN iter_nth(self.iter, i - val)
                        ELSE self.peek[i]],
            !.iter = iter_after(self.iter, len(self) - val),
            !.draws = @ + len(self) - val,
            !.fizz = val]

\* self.fizz -= 1
fizz_decrement(self) ==
    IF sub_overflows(self.fizz, 1) /\ overflow_checks THEN panic(self)
    ELSE [self EXCEPT !.fizz = wrapping_sub(self.fizz, 1)]

\* the branch storing at slot fizz instead of fizz - 1
put_back_store_at_cursor(self, val) ==
    IF usize_le(len(self), self.fizz) THEN panic(self)
    ELSE fizz_decrement([self EXCEPT !.peek[self.fizz] = val])

\* the branch also clearing the slot at the cursor
put_back_store_clearing(self, val) ==
    IF usize_le(len(self), wrapping_sub(self.fizz, 1)) THEN panic(self)
    ELSE fizz_decrement([self EXCEPT
            !.peek = [i \in DOMAIN self.peek |->
                        IF i = self.fizz - 1 THEN val
                        ELSE IF i = self.fizz THEN None
                        ELSE self.peek[i]]])

\* the `if self.fizz > 0` branch of put_back
put_back_store(self, val) ==
    IF usize_le(len(self), wrapping_sub(self.fizz, 1)) THEN panic(self)
    ELSE fizz_decrement([self EXCEPT !.peek[self.fizz - 1] = val])

\* pub fn put_back(&mut self, val: Option<Iter::Item>)
RECURSIVE put_back(_, _)
put_back(self, val) ==
    IF usize_lt(0, self.fizz) THEN put_back_store(self, val)
    ELSE LET w == write_over_val(self, 1) IN
         IF w.panicked THEN w
         ELSE LET p == put_back(w, val) IN
              IF p.panicked THEN p ELSE fizz_decrement(p)

\* peek advancing the cursor past the slot it returns
peek_fn_advancing(self) ==
    LET d == demand(self, 1) IN
    IF d.panicked THEN [self |-> d, out |-> <<>>]
    ELSE IF usize_le(len(d), d.fizz) THEN [self |-> panic(d), out |-> <<>>]
    ELSE [self |-> [d EXCEPT !.fizz = d.fizz + 1], out |-> <<d.peek[d.fizz]>>]

\* pub fn peek(&mut self) -> &Option<Iter::Item>
peek_fn(self) ==
    LET d == demand(self, 1) IN
    IF d.panicked THEN [self |-> d, out |-> <<>>]
    ELSE IF usize_le(len(d), d.fizz) THEN [self |-> panic(d), out |-> <<>>]
    ELSE [self |-> d, out |-> <<d.peek[d.fizz]>>]

\* peek_value slicing from slot 0 instead of the cursor
peek_value_from_start(self, amount) ==
    LET d == demand(self, amount) IN
    IF d.panicked \/ usize_lt(len(d), amount)
    THEN [self |-> panic(d), out |-> <<>>]
    ELSE [self |-> d, out |-> [i \in 1 .. amount |-> d.peek[i - 1]]]

\* pub fn peek_value(&mut self, amount: usize) -> &[Option<Iter::Item>]
peek_value(self, amount) ==
    LET d == demand(self, amount)
        end == wrapping_add(d.fizz, amount)
    IN
    IF d.panicked THEN [self |-> d, out |-> <<>>]
    ELSE IF add_overflows(d.fizz, amount) /\ overflow_checks
         THEN [self |-> panic(d), out |-> <<>>]
    ELSE IF usize_lt(end, d.fizz) \/ usize_lt(len(d), end)
         THEN [self |-> panic(d), out |-> <<>>]
    ELSE [self |-> d, out |-> [i \in 1 .. amount |-> d.peek[d.fizz + i - 1]]]

\* next returning None past the end of the array instead of panicking
next_lenient(self) ==
    LET d == demand(self, 1) IN
    IF d.panicked THEN [self |-> d, out |-> <<>>]
    ELSE IF usize_le(len(d), d.fizz) THEN [self |-> d, out |-> <<None>>]
    ELSE [self |-> [d EXCEPT !.peek[d.fizz] = None, !.fizz = d.fizz + 1],
          out |-> <<d.peek[d.fizz]>>]

\* next leaving the cursor where it is
next_without_advance(self) ==
    LET d == demand(self, 1) IN
    IF d.panicked THEN [self |-> d, out |-> <<>>]
    ELSE IF usize_le(len(d), d.fizz) THEN [self |-> panic(d), out |-> <<>>]
    ELSE [self |-> [d EXCEPT !.peek[d.fizz] = None], out |-> <<d.peek[d.fizz]>>]

\* fn next(&mut self) -> Option<Self::Item>
next(self) ==
    LET d == demand(self, 1) IN
    IF d.panicked THEN [self |-> d, out |-> <<>>]
    ELSE IF usize_le(len(d), d.fizz) THEN [self |-> panic(d), out |-> <<>>]
    ELSE LET t == [d EXCEPT !.peek[d.fizz] = None] IN
         IF add_overflows(d.fizz, 1) /\ overflow_checks
         THEN [self |-> panic(t), out |-> <<>>]
         ELSE [self |-> [t EXCEPT !.fizz = wrapping_add(d.fizz, 1)],
               out |-> <<d.peek[d.fizz]>>]

\* ------------------------------------------------------------ state machine
Cur == Self(iter, peek, fizz, panicked)

\* the ranges 0..l, as in the tests' PutBackPeekMore::new(0..10)
Sources == {[i \in 1 .. l |-> i - 1] : l \in 0 .. MaxLen}
PutBackVals == {None} \cup (0 .. MaxPutBack - 1)

\* a call's record: its name, argument, the cursor it found, what it returned
\* and how many times it drew from the wrapped iterator
Call(op, arg, out, draws) ==
    [op |-> op, arg |-> arg, fizz0 |-> fizz, out |-> out, draws |-> draws]

\* the calls of the tests (lib.rs lines 111-144) in one run, with what they
\* return: put_back returns nothing
Scenario ==
    << [op |-> "peek_value", arg |-> 3, out |-> <<0, 1, 2>>],
       [op |-> "next",       arg |-> 0, out |-> <<0>>],
       [op |-> "peek",       arg |-> 0, out |-> <<1>>],
       [op |-> "put_back",   arg |-> 0, out |-> <<>>],
       [op |-> "peek",       arg |-> 0, out |-> <<0>>],
       [op |-> "next",       arg |-> 0, out |-> <<0>>],
       [op |-> "next",       arg |-> 0, out |-> <<1>>] >>

\* the tests' source, the range 0..10
ScenarioSource == [i \in 1 .. 10 |-> i - 1]

\* `script` after the call op(arg)
Follow(op, arg) ==
    IF /\ script >= 0
       /\ script < Len(Scenario)
       /\ Scenario[script + 1].op = op
       /\ Scenario[script + 1].arg = arg
    THEN script + 1
    ELSE -1

Init ==
    /\ BUFSIZE \in 0 .. MaxBufSize
    /\ overflow_checks \in BOOLEAN
    /\ source \in Sources
    /\ LET s == new(source, BUFSIZE) IN
        /\ iter = s.iter
        /\ peek = s.peek
        /\ fizz = s.fizz
        /\ panicked = s.panicked
    /\ nexts = 0
    /\ last = Call("new", 0, <<>>, new(source, BUFSIZE).draws)
    /\ prev = "new"
    /\ script = 0

Update(s) ==
    /\ iter' = s.iter
    /\ peek' = s.peek
    /\ fizz' = s.fizz
    /\ panicked' = s.panicked

DoPeek ==
    /\ ~panicked
    /\ LET r == peek_fn(Cur) IN
        /\ Update(r.self)
        /\ last' = Call("peek", 0, r.out, r.self.draws)
    /\ script' = Follow("peek", 0)
    /\ prev' = last.op
    /\ UNCHANGED <<BUFSIZE, overflow_checks, source, nexts>>

DoPeekValue ==
    /\ ~panicked
    /\ \E amount \in 0 .. MaxAmount :
        LET r == peek_value(Cur, amount) IN
        /\ Update(r.self)
        /\ last' = Call("peek_value", amount, r.out, r.self.draws)
        /\ script' = Follow("peek_value", amount)
    /\ prev' = last.op
    /\ UNCHANGED <<BUFSIZE, overflow_checks, source, nexts>>

DoNext ==
    /\ ~panicked
    /\ nexts < MaxNexts
    /\ LET r == next(Cur) IN
        /\ Update(r.self)
        /\ last' = Call("next", 0, r.out, r.self.draws)
        /\ nexts' = nexts + Len(r.out)
    /\ script' = Follow("next", 0)
    /\ prev' = last.op
    /\ UNCHANGED <<BUFSIZE, overflow_checks, source>>

DoPutBack ==
    /\ ~panicked
    /\ \E val \in PutBackVals :
        LET p == put_back(Cur, val) IN
        /\ Update(p)
        /\ last' = Call("put_back", val, <<>>, p.draws)
        /\ script' = Follow("put_back", val)
    /\ prev' = last.op
    /\ UNCHANGED <<BUFSIZE, overflow_checks, source, nexts>>

Next == DoPeek \/ DoPeekValue \/ DoNext \/ DoPutBack

Spec == Init /\ [][Next]_vars

\* ------------------------------------------------- restricted call patterns
\* only next() is called
NextOnly == DoNext

SpecNext == Init /\ [][NextOnly]_vars

\* peek_value with an amount the capacity is documented to support
\* (BUFSIZE >= amount + 1, lib.rs lines 4-5)
DoPeekValueWithin ==
    /\ ~panicked
    /\ \E amount \in 0 .. MaxAmount :
        /\ amount + 1 <= BUFSIZE
        /\ LET r == peek_value(Cur, amount) IN
            /\ Update(r.self)
            /\ last' = Call("peek_value", amount, r.out, r.self.draws)
        /\ script' = Follow("peek_value", amount)
    /\ prev' = last.op
    /\ UNCHANGED <<BUFSIZE, overflow_checks, source, nexts>>

\* put_back while the cursor is above 0
DoPutBackAbove ==
    /\ usize_lt(0, fizz)
    /\ DoPutBack

\* next, peek and peek_value within the documented capacity: no put_back
NextLookahead == DoPeek \/ DoPeekValueWithin \/ DoNext

SpecLookahead == Init /\ [][NextLookahead]_vars

\* the same, and put_back at a cursor above 0
NextContract == DoPeek \/ DoPeekValueWithin \/ DoNext \/ DoPutBackAbove

SpecContract == Init /\ [][NextContract]_vars

\* every call, on the tests' buffer: capacity 3 over the range 0..10
InitScenario ==
    /\ BUFSIZE = 3
    /\ overflow_checks \in BOOLEAN
    /\ source = ScenarioSource
    /\ LET s == new(source, BUFSIZE) IN
        /\ iter = s.iter
        /\ peek = s.peek
        /\ fizz = s.fizz
        /\ panicked = s.panicked
    /\ nexts = 0
    /\ last = Call("new", 0, <<>>, new(source, BUFSIZE).draws)
    /\ prev = "new"
    /\ script = 0

SpecScenario == InitScenario /\ [][Next]_vars

\* only next() and peek() are called
NextPeek == DoNext \/ DoPeek

SpecNextPeek == Init /\ [][NextPeek]_vars

\* one put_back after a next(), with peek() calls between the two at most:
\* peek() before the put_back only, put_back once a next() has returned and
\* only right after a next() or a peek()
DoPeekBefore ==
    /\ last.op \in {"new", "next", "peek"}
    /\ DoPeek

DoPutBackOnce ==
    /\ nexts >= 1
    /\ last.op \in {"next", "peek"}
    /\ DoPutBack

NextLookBehind == DoNext \/ DoPeekBefore \/ DoPutBackOnce

SpecLookBehind == Init /\ [][NextLookBehind]_vars

\* ------------------------------------------------------------ helpers
\* k consecutive next() calls: the final struct and the values returned
RECURSIVE next_many(_, _)
next_many(self, k) ==
    IF k = 0 \/ self.panicked THEN [self |-> self, outs |-> <<>>]
    ELSE LET r == next(self)
             m == next_many(r.self, k - 1)
         IN [self |-> m.self, outs |-> r.out \o m.outs]

\* ------------------------------------------------------------------ claims

\* C1: when only next() is called on a fresh buffer of capacity >= 2, no call
\* panics and the k-th call returns the k-th item of the source, or None
\* once the source's items are used up.
C1_NextReproducesSource ==
    BUFSIZE >= 2 =>
        /\ ~panicked
        /\ last.op = "next" => last.out = <<iter_nth(source, nexts - 1)>>

\* two refills done and the source run past its end
C1_Witness ==
    /\ BUFSIZE = 2
    /\ Len(source) = 4
    /\ nexts = 5
    /\ last.op = "next"
    /\ last.out = <<None>>

\* C2: put_back(v) from a cursor in 0..BUFSIZE (capacity >= 1) completes, and
\* the next() that follows completes and returns v.
C2_RoundTrip ==
    (last.op = "put_back" /\ BUFSIZE >= 1 /\ last.fizz0 \in 0 .. BUFSIZE) =>
        /\ ~panicked
        /\ LET r == next(Cur) IN
            /\ ~r.self.panicked
            /\ r.out = <<last.arg>>

\* C3: right after a next() that returned, put_back(v) does not panic and
\* draws nothing from the source, peek() and next() then return v, and that
\* next() leaves the struct exactly as it was before the put_back.
C3_UndoLaw ==
    /\ (last.op = "next" /\ ~panicked) =>
        \A v \in PutBackVals :
            LET p == put_back(Cur, v) IN
            /\ ~p.panicked
            /\ p.iter = iter
            /\ peek_fn(p) = [self |-> p, out |-> <<v>>]
            /\ next(p) = [self |-> Cur, out |-> <<v>>]
    /\ (last.op = "put_back" /\ prev = "next") =>
        /\ ~panicked
        /\ fizz = last.fizz0 - 1
        /\ peek_fn(Cur).out = <<last.arg>>
        /\ next(Cur).out = <<last.arg>>

\* an item put back right after a next(), with an item pending behind it
C3_Witness ==
    /\ last.op = "put_back"
    /\ prev = "next"
    /\ ~panicked
    /\ last.arg # None
    /\ fizz + 1 < BUFSIZE
    /\ peek[fizz + 1] # None
    /\ next(Cur).out = <<last.arg>>

\* C4: after a peek() that returned, another peek() returns the same value
\* and changes nothing.
C4_PeekIdempotent ==
    (last.op = "peek" /\ ~panicked) =>
        peek_fn(Cur) = [self |-> Cur, out |-> last.out]

\* the first peek() refilled the buffer
C4_Witness ==
    /\ last.op = "peek"
    /\ ~panicked
    /\ BUFSIZE >= 1
    /\ last.fizz0 = BUFSIZE
    /\ last.out # <<None>>
    /\ peek_fn(Cur).out = last.out

\* C5: for k <= BUFSIZE, peek_value(k) from a cursor in 0..BUFSIZE does not
\* panic, and whenever it returns, the k next() calls after it return the
\* values of the view in order without drawing from the source.
C5_PeekManyThenNext ==
    ~panicked =>
        \A k \in 0 .. BUFSIZE :
            LET r == peek_value(Cur, k)
                m == next_many(r.self, k)
            IN
            /\ fizz \in 0 .. BUFSIZE => ~r.self.panicked
            /\ ~r.self.panicked =>
                /\ ~m.self.panicked
                /\ m.outs = r.out
                /\ m.self.iter = r.self.iter

\* a peek_value(k >= 2) that refilled and shows items
C5_Witness ==
    /\ last.op = "peek_value"
    /\ ~panicked
    /\ last.arg >= 2
    /\ last.fizz0 + last.arg > BUFSIZE
    /\ last.out[1] # None
    /\ next_many(Cur, last.arg).outs = last.out

\* C6: with every peek_value amount at most BUFSIZE - 1 and put_back called
\* only at a cursor above 0, peek_value(amount) returns and its view is the
\* `amount` values that next() calls would return from the same state.
C6_PeekManyNoGarbage ==
    ~panicked =>
        \A k \in 0 .. MaxAmount :
            k + 1 <= BUFSIZE =>
                LET r == peek_value(Cur, k) IN
                /\ ~r.self.panicked
                /\ r.out = next_many(Cur, k).outs

\* the value `j` places ahead of the cursor: staged slots first, then the
\* items the source has not yielded
pending_nth(j) ==
    IF fizz + j < BUFSIZE THEN peek[fizz + j]
    ELSE iter_nth(iter, fizz + j - BUFSIZE)

\* C7: under next, peek and peek_value alone, slots [fizz, BUFSIZE) followed
\* by what the source has not yielded are the source without its first
\* `nexts` items, the ones next() has returned (None past the end).  This is
\* the claim's "returned ++ staged ++ not yet yielded = source": while that
\* holds, the values returned are the first `nexts` items of the source.
C7_StagingInvariant ==
    ~panicked =>
        \A j \in 0 .. MaxLen + MaxBufSize :
            pending_nth(j) = iter_nth(source, nexts + j)

\* C8: the cursor is in 0..BUFSIZE in every reachable state.
C8_CursorInRange == fizz \in 0 .. BUFSIZE

\* C9: put_back(value) at cursor 0 (capacity >= 1) completes with the cursor
\* at 0 and value in slot 0.
C9_PutBackAtZero ==
    (last.op = "put_back" /\ last.fizz0 = 0 /\ BUFSIZE >= 1) =>
        /\ ~panicked
        /\ fizz = 0
        /\ peek[0] = last.arg

\* the source is exhausted and no staged slot holds an item
Drained ==
    /\ ~panicked
    /\ iter = <<>>
    /\ fizz \in 0 .. BUFSIZE
    /\ \A i \in DOMAIN peek : i >= fizz => peek[i] = None

\* C10 (as amended): with capacity >= 1, once the source is exhausted and no
\* staged item is left, a next() or peek() returns None and leaves the
\* buffer in that condition, refills included.
C10_ExhaustionSticky ==
    [][(Drained /\ BUFSIZE >= 1 /\ last'.op \in {"next", "peek"}) =>
            (last'.out = <<None>> /\ Drained')]_vars

\* a next() that refilled a drained buffer over a non-empty source
C10_Witness ==
    /\ Drained
    /\ Len(source) >= 1
    /\ last.op = "next"
    /\ last.fizz0 = BUFSIZE
    /\ last.out = <<None>>

\* C10 (as claimed): the same for every capacity.
C10_ExhaustionStickyAnyCapacity ==
    [][(Drained /\ last'.op \in {"next", "peek"}) =>
            (last'.out = <<None>> /\ Drained')]_vars

\* the first k values of the source, None where it is shorter
source_prefix(k) == [i \in 1 .. k |-> iter_nth(source, i - 1)]

\* C11 (as amended): new(source) calls the source BUFSIZE times, stores the
\* results in order in slots 0..BUFSIZE-1 and sets the cursor to 0; on that
\* fresh buffer peek_value(k), k <= BUFSIZE, returns the first k values of
\* the source and, when BUFSIZE >= 1, peek() returns the first; neither
\* draws from the source nor changes the buffer.
C11_NewFillsEagerly ==
    /\ last.op = "new" =>
        /\ ~panicked
        /\ fizz = 0
        /\ last.draws = BUFSIZE
        /\ peek = [i \in 0 .. BUFSIZE - 1 |-> iter_nth(source, i)]
        /\ iter = iter_after(source, BUFSIZE)
        /\ \A k \in 0 .. BUFSIZE :
            peek_value(Cur, k) = [self |-> Cur, out |-> source_prefix(k)]
        /\ BUFSIZE >= 1 => peek_fn(Cur) = [self |-> Cur, out |-> source_prefix(1)]
    /\ (prev = "new" /\ last.op = "peek_value" /\ last.arg <= BUFSIZE) =>
        /\ ~panicked
        /\ last.out = source_prefix(last.arg)
        /\ last.draws = 0
        /\ Cur = Self(iter_after(source, BUFSIZE),
                      [i \in 0 .. BUFSIZE - 1 |-> iter_nth(source, i)], 0, FALSE)
    /\ (prev = "new" /\ last.op = "peek" /\ BUFSIZE >= 1) =>
        /\ ~panicked
        /\ last.out = source_prefix(1)
        /\ last.draws = 0

\* peek_value(3) as the first call on a buffer over a source of 2 items
C11_Witness ==
    /\ prev = "new"
    /\ last.op = "peek_value"
    /\ last.arg = 3
    /\ BUFSIZE = 3
    /\ Len(source) = 2
    /\ last.out = <<0, 1, None>>

\* C11 (as claimed): on a fresh buffer of any capacity peek() returns the
\* first value of the source.
C11_FreshPeekAnyCapacity ==
    (prev = "new" /\ last.op = "peek") =>
        /\ ~panicked
        /\ last.out = source_prefix(1)

\* C12: on a buffer of capacity 3 over 0..10 the calls peek_value(3), next(),
\* peek(), put_back(Some(0)), peek(), next(), next() return [0, 1, 2], 0, 1,
\* nothing, 0, 0, 1: no call of the run panics and each returns the value
\* Scenario lists for it.
C12_Scenario ==
    script >= 1 =>
        /\ ~panicked
        /\ last.op = Scenario[script].op
        /\ last.out = Scenario[script].out

\* the whole run made
C12_Witness ==
    /\ script = Len(Scenario)
    /\ last.op = "next"
    /\ prev = "next"
    /\ last.out = <<1>>
    /\ nexts = 3

\* C13: with capacity 0, new() returns and every peek() and next() panics:
\* none ever returns a value.
C13_ZeroCapacityFailsFast ==
    BUFSIZE = 0 =>
        /\ nexts = 0
        /\ last.op \in {"peek", "next"} => (panicked /\ last.out = <<>>)
        /\ ~panicked =>
            /\ peek_fn(Cur).self.panicked
            /\ next(Cur).self.panicked

\* the first call, a next(), panicked on a buffer of capacity 0
C13_Witness ==
    /\ BUFSIZE = 0
    /\ prev = "new"
    /\ last.op = "next"
    /\ panicked
    /\ last.out = <<>>

\* C14: when only next() and peek() are called on a fresh buffer of capacity
\* >= 1, no call panics, the k-th next() returns what the k-th next() of the
\* run without the peek() calls returns, and a peek() returns what the
\* next() after it returns.
C14_PeekNonConsuming ==
    BUFSIZE >= 1 =>
        /\ ~panicked
        /\ last.op = "next" =>
            last.out = <<next_many(new(source, BUFSIZE), nexts).outs[nexts]>>
        /\ last.op = "peek" =>
            /\ ~next(Cur).self.panicked
            /\ next(Cur).out = last.out

\* a peek() refilled the buffer and the next() after it returned the item
C14_Witness ==
    /\ BUFSIZE = 3
    /\ prev = "peek"
    /\ last.op = "next"
    /\ last.fizz0 = 0
    /\ nexts = 4
    /\ last.out = <<3>>

\* C15: a put_back(v) made after at least one next(), with nothing but
\* peek() calls since the last next(), does not panic, leaves the cursor in
\* 0..BUFSIZE, makes v the value the following next() returns and keeps
\* every value that was pending in place behind v.
C15_PutBackAfterPeeks ==
    [][last'.op = "put_back" =>
            /\ ~panicked'
            /\ fizz' \in 0 .. BUFSIZE
            /\ next(Cur)'.out = <<last'.arg>>
            /\ \A j \in 0 .. MaxLen : pending_nth(j + 1)' = pending_nth(j)]_vars

\* C16: put_back(value) found with the cursor in 1..BUFSIZE returns, having
\* stored value in slot fizz - 1 and decremented the cursor by 1: it draws
\* nothing from the source and leaves every other slot as it was.
C16_PutBackFrame ==
    [][(last'.op = "put_back" /\ fizz \in 1 .. BUFSIZE) =>
            /\ ~panicked'
            /\ fizz' = fizz - 1
            /\ peek' = [peek EXCEPT ![fizz - 1] = last'.arg]
            /\ iter' = iter
            /\ last'.draws = 0]_vars

\* an item put back in front of two pending items, with the source not
\* yet exhausted
C16_Witness ==
    /\ last.op = "put_back"
    /\ ~panicked
    /\ last.fizz0 = 1
    /\ last.arg # None
    /\ BUFSIZE = 3
    /\ peek = [i \in 0 .. 2 |-> IF i = 0 THEN last.arg ELSE i]
    /\ iter # <<>>

\* C17: the demand(k) that peek (k = 1), next (k = 1) and peek_value
\* (k = amount) start with, found with the cursor in 0..BUFSIZE: when
\* fizz + k > BUFSIZE it draws BUFSIZE times, filling every slot from the
\* source in order, and sets the cursor to 0; otherwise it draws nothing and
\* changes nothing. For k <= BUFSIZE the cursor it leaves satisfies
\* fizz + k <= BUFSIZE. The call draws nothing beyond what demand drew.
C17_DemandRefills ==
    [][(last'.op \in {"peek", "next", "peek_value"} /\ fizz \in 0 .. BUFSIZE) =>
            LET k == IF last'.op = "peek_value" THEN last'.arg ELSE 1
                d == demand(Cur, k)
            IN
            /\ ~d.panicked
            /\ IF fizz + k > BUFSIZE
               THEN /\ d.fizz = 0
                    /\ d.draws = BUFSIZE
                    /\ d.peek = [i \in 0 .. BUFSIZE - 1 |-> iter_nth(iter, i)]
                    /\ d.iter = iter_after(iter, BUFSIZE)
               ELSE d = Cur
            /\ k <= BUFSIZE => d.fizz + k <= BUFSIZE
            /\ last'.draws = d.draws
            /\ iter' = d.iter
            /\ (last'.op # "next" /\ ~panicked') =>
                    peek' = d.peek /\ fizz' = d.fizz]_vars

\* a peek_value(2) that found one staged item left and refilled
C17_Witness ==
    /\ last.op = "peek_value"
    /\ ~panicked
    /\ BUFSIZE = 3
    /\ last.fizz0 = 2
    /\ last.arg = 2
    /\ last.draws = 3
    /\ fizz = 0
    /\ last.out = <<3, None>>

\* put_back(vals[1]), ..., put_back(vals[Len(vals)]) in a row, stopping at a
\* panic
RECURSIVE put_back_many(_, _)
put_back_many(self, vals) ==
    IF vals = <<>> \/ self.panicked THEN self
    ELSE put_back_many(put_back(self, Head(vals)), Tail(vals))

\* C18: from a cursor in 0..BUFSIZE, m <= fizz calls put_back(v1), ...,
\* put_back(vm) in a row do not panic and draw nothing from the source; the m
\* next() calls after them return vm, ..., v1 and draw nothing; the next()
\* after those returns what next() would have returned before the put_backs.
C18_PutBackLifo ==
    fizz \in 0 .. BUFSIZE =>
        \A m \in 1 .. fizz : \A vals \in [1 .. m -> PutBackVals] :
            LET p == put_back_many(Cur, vals)
                n == next_many(p, m)
            IN
            /\ ~p.panicked
            /\ p.draws = 0
            /\ p.iter = iter
            /\ p.fizz = fizz - m
            /\ ~n.self.panicked
            /\ n.outs = [i \in 1 .. m |-> vals[m + 1 - i]]
            /\ n.self.draws = 0
            /\ next(n.self).out = next(Cur).out

\* put_back(0) then put_back(None) made in a row with the cursor at BUFSIZE:
\* the two next() calls after them return None, then 0
C18_Witness ==
    /\ prev = "put_back"
    /\ last.op = "put_back"
    /\ ~panicked
    /\ BUFSIZE = 3
    /\ last.fizz0 = 2
    /\ last.arg = None
    /\ fizz = 1
    /\ peek[2] = 0
    /\ iter # <<>>
    /\ next_many(Cur, 2).outs = <<None, 0>>

\* how many times put_back(self, _) calls itself (lib.rs line 72) before it
\* returns or panics
RECURSIVE put_back_reentries(_)
put_back_reentries(self) ==
    IF usize_lt(0, self.fizz) THEN 0
    ELSE LET w == write_over_val(self, 1) IN
         IF w.panicked THEN 0 ELSE 1 + put_back_reentries(w)

\* C19: every call ends after a bounded number of draws from the source:
\* peek(), next() and peek_value() draw BUFSIZE times or not at all; put_back
\* draws BUFSIZE - 1 times when it finds the cursor at 0 (and BUFSIZE >= 1)
\* and not at all otherwise; from any state put_back calls itself at most
\* once, since write_over_val(1) leaves the cursor at 1.
C19_BoundedDraws ==
    /\ last.op \in {"peek", "next", "peek_value"} => last.draws \in {0, BUFSIZE}
    /\ last.op = "put_back" =>
            last.draws = IF last.fizz0 = 0 /\ BUFSIZE >= 1 THEN BUFSIZE - 1 ELSE 0
    /\ ~panicked =>
            /\ put_back_reentries(Cur) <= 1
            /\ put_back_reentries(Cur) = 1 => write_over_val(Cur, 1).fizz = 1
            /\ \A val \in PutBackVals :
                    put_back(Cur, val).draws = put_back_reentries(Cur) * (BUFSIZE - 1)

\* a put_back that found the cursor at 0 in a buffer of capacity 3 and drew
\* twice from a source that still had items
C19_Witness ==
    /\ last.op = "put_back"
    /\ last.fizz0 = 0
    /\ BUFSIZE = 3
    /\ last.draws = 2
    /\ Len(source) = 4
    /\ iter = <<>>
    /\ prev = "peek"

TypeOK ==
    /\ BUFSIZE \in 0 .. MaxBufSize
    /\ DOMAIN peek = 0 .. BUFSIZE - 1
    /\ fizz \in (0 .. BUFSIZE) \cup {UsizeMax}
    /\ usize_digits(fizz) \in [1 .. UsizeBits -> {0, 1}]
    /\ panicked \in BOOLEAN
====
